---- MODULE Spec2Model ----
(***************************************************************************)
(* Model of the connection and schema-provisioning layer of the            *)
(* dtamura/myexporter OpenTelemetry exporter: the connection-string        *)
(* builder (buildDSN), the connection manager (buildDB), the database      *)
(* ensure step (createDatabase), the per-signal table provisioning and     *)
(* the start / shutdown lifecycle of the logs, traces and metrics          *)
(* exporters.                                                              *)
(*                                                                         *)
(* Strings of the program are TLA+ strings.  A URI is kept as the record   *)
(* of its components; url.Parse is the table UrlParse over the endpoints   *)
(* of Endpoints and URL.String() is URLString.  Query values are drawn     *)
(* from unreserved characters, on which url.QueryEscape changes nothing.   *)
(***************************************************************************)
EXTENDS Integers, Sequences, FiniteSets, TLC

VARIABLES
    cfg,        \* the Config record shared by the exporters
    override,   \* the database argument of the buildDSN call under study
    dsnOut,     \* result of the last direct buildDSN call
    dbOut,      \* result of the last direct buildDB call
    calls,      \* number of direct buildDSN / buildDB calls
    present,    \* the signal kinds for which the factory creates an exporter
    pc,         \* per exporter: "new", "constructed", "starting", "running", "failed", "stopped"
    db,         \* per exporter: its *sql.DB handle: "nil", "open" or "closed"
    ctorErr,    \* per exporter: error returned by its constructor ("" = nil)
    warned,     \* per exporter: its constructor logged the fallback warning
    store,      \* the target store: [dbs |-> set of names, tables |-> set of <<db, table>>]
    issued,     \* per exporter: the statements its last start sent to the store
    pings,      \* per exporter: liveness probes issued by its last start
    dsnBuilds,  \* per exporter: buildDSN calls made on its behalf
    opens,      \* per exporter: sql.Open calls made for its own handle
    ctrl,       \* per exporter: control connections of createDatabase: [opened, closed, scope]
    closes,     \* per exporter: Close calls that reached its open handle
    startRes,   \* per exporter: result of the last start: "none", "ok", "err"
    startErr,   \* per exporter: the error the last start returned ("" = nil)
    startFault, \* per exporter: the I/O call the environment failed in the last start
    stepFailed, \* per exporter: the I/O calls of the last start that returned an error
    prevRes,    \* per exporter: result of the start before the last one
    storeBefore,\* per exporter: the store as it was when the last start began
    starts,     \* per exporter: number of start calls
    shutRes,    \* per exporter: result of the last shutdown: "none", "ok", "err"
    shutdowns,  \* per exporter: number of shutdown calls
    rendered,   \* result of the last direct call of a table renderer and its clause builders
    ttlOut,     \* argument and result of the last direct GenerateTTLExpr call
    tableOut,   \* template and result of the last direct createLogsTable / createMetricTable call
    renders,    \* number of direct renderer / GenerateTTLExpr calls
    ensureOut,  \* result of the last direct createDatabase call
    ensures,    \* number of direct createDatabase calls
    step,       \* per exporter: blocking calls of the start in progress that have returned
    inflight,   \* per exporter: its start's current call: "none", "sent", or "done" (answered)
    answer,     \* per exporter: what the last call that ran answered: [err, failed]
    ctx,        \* the context the collector passes to start: "live" or "cancelled"
    pushRes,    \* per exporter: result of its last push call: "none", "ok", "err"
    pushes      \* per exporter: number of push calls

vars == <<cfg, override, dsnOut, dbOut, calls, present, pc, db, ctorErr, warned, store, issued,
          pings, dsnBuilds, opens, ctrl, closes, startRes, startErr, startFault, stepFailed, prevRes,
          storeBefore, starts, shutRes, shutdowns, rendered, ttlOut, tableOut, renders,
          ensureOut, ensures, step, inflight, answer, ctx,
          pushRes, pushes>>

lifecycleVars == <<present, pc, db, ctorErr, warned, store, issued, pings, dsnBuilds, opens,
                   ctrl, closes, startRes, startErr, startFault, stepFailed, prevRes,
                   storeBefore, starts, shutRes, shutdowns>>

harnessVars == <<override, dsnOut, dbOut, calls>>

renderVars == <<rendered, ttlOut, tableOut, renders>>

stepVars == <<step, inflight, answer, ctx>>

pushVars == <<pushRes, pushes>>

ensureVars == <<ensureOut, ensures>>

(***************************************************************************)
(* Bounds of the model.                                                    *)
(***************************************************************************)
MaxStarts == 2
MaxShutdowns == 2
MaxCalls == 2
MaxRenders == 2
MaxEnsures == 2

\* Push calls per exporter.
MaxPushes == 1

\* Start, shutdown and push calls in all when two exporters run side by side.
MaxOwnerCalls == 3

(***************************************************************************)
(* net/url as used by buildDSN.                                            *)
(***************************************************************************)
NoURL == [ok |-> FALSE, Scheme |-> "", User |-> <<>>, Host |-> "", Path |-> "", RawQuery |-> <<>>]

MkURL(scheme, host, path, query) ==
    [ok |-> TRUE, Scheme |-> scheme, User |-> <<>>, Host |-> host, Path |-> path, RawQuery |-> query]

\* The endpoints of the model.  The last two do not parse.
Endpoints ==
    { "", "tcp://h:9000", "tcp://h:9000/", "tcp://h:9000/uridb",
      "tcp://h:9000?compress=zstd&async_insert=0",
      "https://h:8443/uridb?secure=false",
      "HTTPS://h:8443?secure=false&secure=0",
      "http://h:8123/uridb?secure=true",
      "tcp://bob:pw@h:9000",
      "tcp://h:9000/%zz", "://h:9000" }

\* url.Parse: the scheme is lower-cased, the path keeps its leading slash, the
\* query is kept raw (here: the sequence of its key=value pairs).
UrlParse(endpoint) ==
    CASE endpoint = "" -> MkURL("", "", "", <<>>)
      [] endpoint = "tcp://h:9000" -> MkURL("tcp", "h:9000", "", <<>>)
      [] endpoint = "tcp://h:9000/" -> MkURL("tcp", "h:9000", "/", <<>>)
      [] endpoint = "tcp://h:9000/uridb" -> MkURL("tcp", "h:9000", "/uridb", <<>>)
      [] endpoint = "tcp://h:9000?compress=zstd&async_insert=0" ->
            MkURL("tcp", "h:9000", "", << <<"compress", "zstd">>, <<"async_insert", "0">> >>)
      [] endpoint = "https://h:8443/uridb?secure=false" ->
            MkURL("https", "h:8443", "/uridb", << <<"secure", "false">> >>)
      [] endpoint = "HTTPS://h:8443?secure=false&secure=0" ->
            MkURL("https", "h:8443", "", << <<"secure", "false">>, <<"secure", "0">> >>)
      [] endpoint = "http://h:8123/uridb?secure=true" ->
            MkURL("http", "h:8123", "/uridb", << <<"secure", "true">> >>)
      [] endpoint = "tcp://bob:pw@h:9000" ->
            [MkURL("tcp", "h:9000", "", <<>>) EXCEPT !.User = <<"bob", "pw">>]
      [] OTHER -> NoURL

\* url.Values: a map from key to the list of its values.
EmptyValues == [k \in {} |-> <<>>]

ValuesSet(q, k, v) == [x \in DOMAIN q \cup {k} |-> IF x = k THEN <<v>> ELSE q[x]]

ValuesAdd(q, k, v) ==
    [x \in DOMAIN q \cup {k} |-> IF x = k
                                 THEN (IF k \in DOMAIN q THEN Append(q[k], v) ELSE <<v>>)
                                 ELSE q[x]]

ValuesHas(q, k) == k \in DOMAIN q

RECURSIVE ParseQuery(_)
\* URL.Query(): the pairs of the raw query, added in order.
ParseQuery(pairs) ==
    IF pairs = <<>> THEN EmptyValues
    ELSE LET n == Len(pairs)
         IN ValuesAdd(ParseQuery(SubSeq(pairs, 1, n - 1)), pairs[n][1], pairs[n][2])

\* The query keys of the model in the order Values.Encode sorts them.
SortedKeys == <<"async_insert", "compress", "dial_timeout", "secure">>

RECURSIVE EncodeFrom(_, _)
EncodeFrom(q, i) ==
    IF i > Len(SortedKeys) THEN <<>>
    ELSE LET k == SortedKeys[i]
         IN (IF k \in DOMAIN q THEN [j \in 1..Len(q[k]) |-> <<k, q[k][j]>>] ELSE <<>>)
            \o EncodeFrom(q, i + 1)

\* Values.Encode(): key=value pairs sorted by key, a key's values in their order.
ValuesEncode(q) == EncodeFrom(q, 1)

\* URL.String(): a path that does not start with a slash gets one when the URI
\* has a host.  The result is kept as the components of the string.
StartsWithSlash(path) == path \in {"/", "/uridb"}

URLString(u) ==
    [scheme |-> u.Scheme,
     userinfo |-> u.User,
     host |-> u.Host,
     path |-> IF u.Path # "" /\ ~StartsWithSlash(u.Path) /\ u.Host # ""
              THEN "/" \o u.Path ELSE u.Path,
     query |-> u.RawQuery]

EmptyDSN == [scheme |-> "", userinfo |-> <<>>, host |-> "", path |-> "", query |-> <<>>]

(***************************************************************************)
(* The Config record and buildDSN.                                         *)
(***************************************************************************)
ParamMaps ==
    { EmptyValues,
      [k \in {"secure"} |-> "false"],
      [k \in {"compress"} |-> "gzip"],
      [k \in {"secure", "dial_timeout"} |-> IF k = "secure" THEN "false" ELSE "10s"],
      [k \in {"compress", "async_insert"} |-> IF k = "compress" THEN "none" ELSE "1"] }

\* The orders in which "range cfg.ConnectionParams" can visit the keys.
IterationOrders(m) ==
    { s \in [1..Cardinality(DOMAIN m) -> DOMAIN m] :
        \A i, j \in DOMAIN s : i # j => s[i] # s[j] }

ApplyParamsFirstOnly(q, m, order) ==
    IF order = <<>> THEN q ELSE ValuesSet(q, Head(order), m[Head(order)])

RECURSIVE ApplyParams(_, _, _)
ApplyParams(q, m, order) ==
    IF order = <<>> THEN q
    ELSE ApplyParams(ValuesSet(q, Head(order), m[Head(order)]), m, Tail(order))

FormatBool(b) == IF b THEN "true" ELSE "false"

\* The steps of buildDSN on the query values, in the order of the code.
ForceSecureIfAbsent(scheme, q) ==
    IF scheme = "https" /\ ~ValuesHas(q, "secure") THEN ValuesSet(q, "secure", "true") ELSE q

ForceSecure(scheme, q) ==
    IF scheme = "https" THEN ValuesSet(q, "secure", "true") ELSE q

DefaultCompressForced(c, q) ==
    ValuesSet(q, "compress", IF c.Compress = "" \/ c.Compress = "true" THEN "lz4" ELSE c.Compress)

DefaultCompress(c, q) ==
    IF ~ValuesHas(q, "compress") /\ (c.Compress = "" \/ c.Compress = "true")
    THEN ValuesSet(q, "compress", "lz4")
    ELSE IF ~ValuesHas(q, "compress")
         THEN ValuesSet(q, "compress", c.Compress)
         ELSE q

DefaultAsyncInsert(c, q) ==
    IF ~ValuesHas(q, "async_insert")
    THEN ValuesSet(q, "async_insert", FormatBool(c.AsyncInsert))
    ELSE q

\* The steps of buildDSN on dsnURL.Path, in the order of the code.
PathFromConfig(c, path) == IF c.Database # "" THEN c.Database ELSE path

PathFromOverride(database, path) == IF database # "" THEN database ELSE path

PathOrDefault(c, database, path) ==
    IF database = "" /\ c.Database = "" /\ path = "" THEN "default" ELSE path

UserInfoAlways(c, user) == <<c.Username, c.Password>>

\* url.UserPassword replaces the user information of the endpoint.
UserInfo(c, user) == IF c.Username # "" THEN <<c.Username, c.Password>> ELSE user

\* buildDSN once url.Parse has returned dsnURL.
buildDSNParsed(c, database, dsnURL, order) ==
    IF ~dsnURL.ok THEN [dsn |-> EmptyDSN, err |-> "invalid endpoint format"]
    ELSE [dsn |-> URLString(
                    [ok |-> TRUE,
                     Scheme |-> dsnURL.Scheme,
                     User |-> UserInfo(c, dsnURL.User),
                     Host |-> dsnURL.Host,
                     Path |-> PathOrDefault(c, database,
                                 PathFromOverride(database, PathFromConfig(c, dsnURL.Path))),
                     RawQuery |-> ValuesEncode(
                                 DefaultAsyncInsert(c, DefaultCompress(c,
                                     ForceSecure(dsnURL.Scheme,
                                         ApplyParams(ParseQuery(dsnURL.RawQuery),
                                                     c.ConnectionParams, order)))))]),
          err |-> ""]

buildDSNUnchecked(c, database, order) ==
    buildDSNParsed(c, database, UrlParse(c.Endpoint), order)

buildDSN(c, database, order) ==
    IF c.Endpoint = "" THEN [dsn |-> EmptyDSN, err |-> "endpoint must be specified"]
    ELSE buildDSNParsed(c, database, UrlParse(c.Endpoint), order)

(***************************************************************************)
(* database/sql and the target store.                                      *)
(*                                                                         *)
(* A statement is the sequence of the pieces of its text.  The store runs  *)
(* a statement it is sent unless the call fails (accepted = FALSE: the     *)
(* network, a timeout, a refusal of the server); a CREATE carrying         *)
(* IF NOT EXISTS succeeds without change on an object that exists, a       *)
(* CREATE without it fails on such an object.                              *)
(***************************************************************************)
CreateDbHead == "CREATE DATABASE IF NOT EXISTS "
CreateTableHead == "CREATE TABLE IF NOT EXISTS \""

IsCreateDb(sql) == Len(sql) >= 2 /\ sql[1] \in {CreateDbHead, "CREATE DATABASE "}
IsCreateTable(sql) == Len(sql) >= 4 /\ sql[1] \in {CreateTableHead, "CREATE TABLE \""}
HasIfNotExists(sql) == Len(sql) >= 1 /\ sql[1] \in {CreateDbHead, CreateTableHead}

StoreObject(sql) ==
    IF IsCreateDb(sql) THEN <<"database", sql[2]>> ELSE <<"table", sql[2], sql[4]>>

StoreHas(st, sql) ==
    IF IsCreateDb(sql) THEN sql[2] \in st.dbs ELSE <<sql[2], sql[4]>> \in st.tables

StoreExec(st, sql, accepted) ==
    IF ~accepted \/ ~(IsCreateDb(sql) \/ IsCreateTable(sql))
    THEN [store |-> st, err |-> "exec failed"]
    ELSE IF StoreHas(st, sql)
    THEN [store |-> st, err |-> IF HasIfNotExists(sql) THEN "" ELSE "already exists"]
    ELSE IF IsCreateDb(sql)
    THEN [store |-> [st EXCEPT !.dbs = @ \cup {sql[2]}], err |-> ""]
    ELSE [store |-> [st EXCEPT !.tables = @ \cup {<<sql[2], sql[4]>>}], err |-> ""]

\* The I/O calls of one start pass that the environment can fail.
FaultPoints ==
    {"none", "ctrlOpen", "createDb", "table1", "table2", "table3", "table4", "table5", "ping"}

(***************************************************************************)
(* Connection manager: clickhouse.go.                                      *)
(*                                                                         *)
(* A function of the code that calls another and then branches on its      *)
(* result is written as two operators: the call, and the rest of the       *)
(* function given the value the call returned.                             *)
(***************************************************************************)
Only(S) == CHOOSE x \in S : TRUE

DSNCredentials(dsn) ==
    IF dsn.userinfo = <<>> THEN "" ELSE dsn.userinfo[1] \o ":" \o dsn.userinfo[2]

buildDBOpenNamingDSN(r, openOk) ==
    IF r.err # ""
    THEN [conn |-> "nil", err |-> r.err, dsn |-> r.dsn, dsnBuilt |-> 1, opened |-> 0]
    ELSE IF ~openOk
    THEN [conn |-> "nil", err |-> "sql.Open failed for " \o DSNCredentials(r.dsn),
          dsn |-> r.dsn, dsnBuilt |-> 1, opened |-> 1]
    ELSE [conn |-> "open", err |-> "", dsn |-> r.dsn, dsnBuilt |-> 1, opened |-> 1]

\* buildDB once buildDSN has returned r: the handle ("nil" or "open"), the
\* error, and the calls buildDB made.
buildDBOpen(r, openOk) ==
    IF r.err # ""
    THEN [conn |-> "nil", err |-> r.err, dsn |-> r.dsn, dsnBuilt |-> 1, opened |-> 0]
    ELSE IF ~openOk
    THEN [conn |-> "nil", err |-> "sql.Open failed", dsn |-> r.dsn, dsnBuilt |-> 1, opened |-> 1]
    ELSE [conn |-> "open", err |-> "", dsn |-> r.dsn, dsnBuilt |-> 1, opened |-> 1]

buildDB(c, database, order, openOk) ==
    Only({ buildDBOpen(r, openOk) : r \in {buildDSN(c, database, order)} })

buildDBConnection(c, order, openOk) == buildDB(c, c.Database, order, openOk)

CreateDbQueryUnguarded(c) == <<"CREATE DATABASE ", c.Database>>

CreateDbQuery(c) == <<CreateDbHead, c.Database>>

NoCtrl == [opened |-> 0, closed |-> 0, scope |-> ""]

DatabaseSkipped(st) ==
    [err |-> "", store |-> st, stmts |-> <<>>, ctrl |-> NoCtrl, dsnBuilt |-> 0, failed |-> <<>>]

\* createDatabase once ExecContext has returned x on the control connection b:
\* the deferred Close has run in either case.
createDatabaseExecutedNoDefer(c, b, x) ==
    [err |-> IF x.err # "" THEN "create database: " \o x.err ELSE "",
     store |-> x.store, stmts |-> <<CreateDbQuery(c)>>,
     ctrl |-> [opened |-> 1, closed |-> IF x.err # "" THEN 0 ELSE 1, scope |-> b.dsn.path],
     dsnBuilt |-> b.dsnBuilt,
     failed |-> IF x.err # "" THEN <<"createDb">> ELSE <<>>]

createDatabaseExecuted(c, b, x) ==
    [err |-> IF x.err # "" THEN "create database: " \o x.err ELSE "",
     store |-> x.store, stmts |-> <<CreateDbQuery(c)>>,
     ctrl |-> [opened |-> 1, closed |-> 1, scope |-> b.dsn.path],
     dsnBuilt |-> b.dsnBuilt,
     failed |-> IF x.err # "" THEN <<"createDb">> ELSE <<>>]

\* createDatabase once buildDB(cfg, "default") has returned b.
createDatabaseConnected(c, st, fault, b) ==
    IF b.err # ""
    THEN [err |-> "build db connection: " \o b.err, store |-> st, stmts |-> <<>>,
          ctrl |-> NoCtrl, dsnBuilt |-> b.dsnBuilt, failed |-> <<"open">>]
    ELSE Only({ createDatabaseExecuted(c, b, x) :
                  x \in {StoreExec(st, CreateDbQuery(c), fault # "createDb")} })

\* createDatabase: the error, the store afterwards, the statements sent, the
\* control connection it opened and closed, and the buildDSN calls it made.
createDatabase(c, st, fault, order) ==
    IF ~c.CreateSchema THEN DatabaseSkipped(st)
    ELSE IF c.Database = "" \/ c.Database = "default" THEN DatabaseSkipped(st)
    ELSE Only({ createDatabaseConnected(c, st, fault, b) :
                  b \in {buildDB(c, "default", order, fault # "ctrlOpen")} })

(***************************************************************************)
(* Template store and rendering.                                           *)
(***************************************************************************)
EmbeddedFiles ==
    { "logs_table.sql", "traces_table.sql", "metrics_gauge_table.sql",
      "metrics_sum_table.sql", "metrics_histogram_table.sql",
      "metrics_summary_table.sql", "metrics_exponential_histogram_table.sql" }

\* Every bundled template has the same five placeholders around its columns.
TemplateText(filename) ==
    << CreateTableHead, "%s", "\".\"", "%s", "\" ", "%s",
       " ( columns of " \o filename \o " ) ENGINE = ", "%s", " ", "%s",
       " PARTITION BY toDate ORDER BY key" >>

\* time.Duration, counted in milliseconds.
Second == 1000
Minute == 60 * Second
Hour == 60 * Minute

\* The result keeps the function name, the count %d prints and the time field.
GenerateTTLExprHoursFirst(ttl, timeField) ==
    IF ttl > 0
    THEN CASE ttl % Hour = 0 -> [fn |-> "toIntervalHour", count |-> ttl \div Hour, field |-> timeField]
           [] ttl % (24 * Hour) = 0 /\ ttl % Hour # 0 ->
                [fn |-> "toIntervalDay", count |-> ttl \div (24 * Hour), field |-> timeField]
           [] ttl % Hour # 0 /\ ttl % Minute = 0 ->
                [fn |-> "toIntervalMinute", count |-> ttl \div Minute, field |-> timeField]
           [] OTHER -> [fn |-> "toIntervalSecond", count |-> ttl \div Second, field |-> timeField]
    ELSE [fn |-> "", count |-> 0, field |-> ""]

GenerateTTLExpr(ttl, timeField) ==
    IF ttl > 0
    THEN CASE ttl % (24 * Hour) = 0 ->
                [fn |-> "toIntervalDay", count |-> ttl \div (24 * Hour), field |-> timeField]
           [] ttl % (24 * Hour) # 0 /\ ttl % Hour = 0 ->
                [fn |-> "toIntervalHour", count |-> ttl \div Hour, field |-> timeField]
           [] ttl % Hour # 0 /\ ttl % Minute = 0 ->
                [fn |-> "toIntervalMinute", count |-> ttl \div Minute, field |-> timeField]
           [] OTHER -> [fn |-> "toIntervalSecond", count |-> ttl \div Second, field |-> timeField]
    ELSE [fn |-> "", count |-> 0, field |-> ""]

LoadSQLTemplate(filename) ==
    IF filename \in EmbeddedFiles
    THEN [text |-> TemplateText(filename), err |-> ""]
    ELSE [text |-> <<>>, err |-> "template not found"]

RECURSIVE ReplaceFirst(_, _, _)
\* strings.Replace(s, old, new, 1) on the pieces of s.
ReplaceFirst(s, old, new) ==
    IF s = <<>> THEN <<>>
    ELSE IF Head(s) = old THEN <<new>> \o Tail(s)
    ELSE <<Head(s)>> \o ReplaceFirst(Tail(s), old, new)

RECURSIVE RenderAll(_, _)
RenderAll(sql, replacements) ==
    IF replacements = <<>> THEN sql
    ELSE RenderAll(ReplaceFirst(sql, "%s", Head(replacements)), Tail(replacements))

\* fmt's %d on the day counts of the model.
IntText(n) ==
    IF n \in 0..9 THEN <<"0", "1", "2", "3", "4", "5", "6", "7", "8", "9">>[n + 1] ELSE "many"

buildClusterClause(c) ==
    IF c.ClusterName # "" THEN "ON CLUSTER " \o c.ClusterName ELSE ""

logsBuildClusterClause(c) ==
    IF c.ClusterName # "" THEN "ON CLUSTER " \o c.ClusterName ELSE ""

getLogsTableName(c) == IF c.LogsTableName # "" THEN c.LogsTableName ELSE "otel_logs"

buildLogsEngineClause(c) ==
    IF c.ClusterName # ""
    THEN "Distributed(" \o c.ClusterName \o ", " \o c.Database \o ", "
         \o getLogsTableName(c) \o "_local, rand())"
    ELSE "MergeTree()"

logsBuildTTLClause(c) ==
    IF c.TTLDays > 0
    THEN "TTL toDateTime(Timestamp) + toIntervalDay(" \o IntText(c.TTLDays) \o ")"
    ELSE ""

renderLogsTableSQL(c, template) ==
    RenderAll(template, << c.Database, getLogsTableName(c), logsBuildClusterClause(c),
                           buildLogsEngineClause(c), logsBuildTTLClause(c) >>)

buildMetricsEngineClauseSingleNode(c) == "MergeTree()"

buildMetricsEngineClause(c) ==
    IF c.ClusterName # ""
    THEN "Distributed(" \o c.ClusterName \o ", " \o c.Database \o ", "
         \o "otel_metrics" \o "_local, rand())"
    ELSE "MergeTree()"

metricsBuildTTLClauseOfLogs(c) == logsBuildTTLClause(c)

metricsBuildTTLClause(c) ==
    IF c.TTLDays > 0
    THEN "TTL toDateTime(TimeUnix) + toIntervalDay(" \o IntText(c.TTLDays) \o ")"
    ELSE ""

renderMetricTableSQL(c, template, tableName) ==
    RenderAll(template, << c.Database, tableName, buildClusterClause(c),
                           buildMetricsEngineClause(c), metricsBuildTTLClause(c) >>)

(***************************************************************************)
(* Table provisioning of the logs and metrics exporters.                   *)
(***************************************************************************)
executeSQLResult(sql, x) ==
    [err |-> IF x.err # "" THEN "exec: " \o x.err ELSE "", store |-> x.store,
     stmts |-> <<sql>>, failed |-> IF x.err # "" THEN <<"exec">> ELSE <<>>]

executeSQLSkippingKnown(handle, sql, st, accepted) ==
    IF handle = "nil"
    THEN [err |-> "no database connection", store |-> st, stmts |-> <<>>, failed |-> <<>>]
    ELSE IF handle = "closed"
    THEN [err |-> "exec: sql: database is closed", store |-> st, stmts |-> <<>>,
          failed |-> <<"exec">>]
    ELSE IF StoreHas(st, sql)
    THEN [err |-> "", store |-> st, stmts |-> <<>>, failed |-> <<>>]
    ELSE Only({ executeSQLResult(sql, x) : x \in {StoreExec(st, sql, accepted)} })

\* sql.DB.ExecContext through executeSQL: nothing reaches the store without a
\* handle or on a handle that was closed.
executeSQL(handle, sql, st, accepted) ==
    IF handle = "nil"
    THEN [err |-> "no database connection", store |-> st, stmts |-> <<>>, failed |-> <<>>]
    ELSE IF handle = "closed"
    THEN [err |-> "exec: sql: database is closed", store |-> st, stmts |-> <<>>,
          failed |-> <<"exec">>]
    ELSE Only({ executeSQLResult(sql, x) : x \in {StoreExec(st, sql, accepted)} })

WrapErr(prefix, x) == [x EXCEPT !.err = IF x.err # "" THEN prefix \o x.err ELSE ""]

TemplateFailed(t, st) ==
    [err |-> "load template: " \o t.err, store |-> st, stmts |-> <<>>, failed |-> <<"load">>]

\* createLogsTable once LoadSQLTemplate has returned t.
createLogsTableLoaded(c, handle, st, fault, t) ==
    IF t.err # "" THEN TemplateFailed(t, st)
    ELSE Only({ WrapErr("create logs table: ", executeSQL(handle, sql, st, fault # "table1")) :
                  sql \in {renderLogsTableSQL(c, t.text)} })

createLogsTable(c, handle, st, fault) ==
    Only({ createLogsTableLoaded(c, handle, st, fault, t) :
             t \in {LoadSQLTemplate("logs_table.sql")} })

metricTypesSumFirst ==
    << [templateFile |-> "metrics_sum_table.sql", tableName |-> "otel_metrics_sum"],
       [templateFile |-> "metrics_gauge_table.sql", tableName |-> "otel_metrics_gauge"],
       [templateFile |-> "metrics_histogram_table.sql", tableName |-> "otel_metrics_histogram"],
       [templateFile |-> "metrics_summary_table.sql", tableName |-> "otel_metrics_summary"],
       [templateFile |-> "metrics_exponential_histogram_table.sql",
        tableName |-> "otel_metrics_exponential_histogram"] >>

metricTypes ==
    << [templateFile |-> "metrics_gauge_table.sql", tableName |-> "otel_metrics_gauge"],
       [templateFile |-> "metrics_sum_table.sql", tableName |-> "otel_metrics_sum"],
       [templateFile |-> "metrics_histogram_table.sql", tableName |-> "otel_metrics_histogram"],
       [templateFile |-> "metrics_summary_table.sql", tableName |-> "otel_metrics_summary"],
       [templateFile |-> "metrics_exponential_histogram_table.sql",
        tableName |-> "otel_metrics_exponential_histogram"] >>

TableFault == <<"table1", "table2", "table3", "table4", "table5">>

\* createMetricTable once LoadSQLTemplate has returned t.
createMetricTableLoaded(c, handle, st, tableName, accepted, t) ==
    IF t.err # "" THEN TemplateFailed(t, st)
    ELSE Only({ WrapErr("create table: ", executeSQL(handle, sql, st, accepted)) :
                  sql \in {renderMetricTableSQL(c, t.text, tableName)} })

createMetricTable(c, handle, st, templateFile, tableName, accepted) ==
    Only({ createMetricTableLoaded(c, handle, st, tableName, accepted, t) :
             t \in {LoadSQLTemplate(templateFile)} })

RECURSIVE MetricsTablesFrom(_, _, _, _, _, _)
RECURSIVE MetricsTablesNext(_, _, _, _, _, _)
\* The loop of createMetricsTables from its i-th table on; sent is what the
\* earlier iterations sent.
MetricsTablesFrom(c, handle, st, fault, i, sent) ==
    IF i > Len(metricTypes) THEN [err |-> "", store |-> st, stmts |-> sent, failed |-> <<>>]
    ELSE Only({ MetricsTablesNext(c, handle, fault, i, sent, r) :
                  r \in {createMetricTable(c, handle, st, metricTypes[i].templateFile,
                                           metricTypes[i].tableName, fault # TableFault[i])} })

MetricsTablesNextBestEffort(c, handle, fault, i, sent, r) ==
    IF r.err # ""
    THEN [MetricsTablesFrom(c, handle, r.store, fault, i + 1, sent \o r.stmts)
            EXCEPT !.err = "create metrics tables: " \o r.err, !.failed = r.failed]
    ELSE MetricsTablesFrom(c, handle, r.store, fault, i + 1, sent \o r.stmts)

\* The loop body once createMetricTable has returned r for the i-th table.
MetricsTablesNext(c, handle, fault, i, sent, r) ==
    IF r.err # ""
    THEN [err |-> "create metrics tables: " \o r.err, store |-> r.store,
          stmts |-> sent \o r.stmts, failed |-> r.failed]
    ELSE MetricsTablesFrom(c, handle, r.store, fault, i + 1, sent \o r.stmts)

createMetricsTables(c, handle, st, fault) == MetricsTablesFrom(c, handle, st, fault, 1, <<>>)

(***************************************************************************)
(* Exporter lifecycle: constructor, start, shutdown.                       *)
(***************************************************************************)
NoConn == [conn |-> "nil", err |-> "", dsn |-> EmptyDSN, dsnBuilt |-> 0, opened |-> 0]

\* What a constructor returns once buildDBConnection has returned r (or was
\* not called): the exporter's handle and a nil error, after a warning if r
\* carries an error.
ConstructedOrError(r) ==
    [db |-> r.conn, err |-> r.err, warned |-> r.err # "", logged |-> r.err,
     dsnBuilt |-> r.dsnBuilt, opened |-> r.opened]

\* logged is the error the warning carries (zap.Error(err)).
Constructed(r) ==
    [db |-> r.conn, err |-> "", warned |-> r.err # "", logged |-> r.err,
     dsnBuilt |-> r.dsnBuilt, opened |-> r.opened]

newLogsExporter(c, order, openOk) ==
    Only({ Constructed(r) :
             r \in {IF c.Endpoint # "" THEN buildDBConnection(c, order, openOk) ELSE NoConn} })

newTracesExporter(c, order, openOk) ==
    Only({ Constructed(r) :
             r \in {IF c.Endpoint # "" THEN buildDBConnection(c, order, openOk) ELSE NoConn} })

newMetricsExporterAlways(c, order, openOk) ==
    Only({ Constructed(r) : r \in {buildDBConnection(c, order, openOk)} })

newMetricsExporter(c, order, openOk) ==
    Only({ Constructed(r) :
             r \in {IF c.Endpoint # "" THEN buildDBConnection(c, order, openOk) ELSE NoConn} })

\* sql.DB.Ping / PingContext: fails at once on a closed handle.
Ping(handle, fault) ==
    IF handle = "closed" THEN [err |-> "sql: database is closed", failed |-> <<"ping">>]
    ELSE IF fault = "ping" THEN [err |-> "ping failed", failed |-> <<"ping">>]
    ELSE [err |-> "", failed |-> <<>>]

\* The outcome of a start: its error, the store afterwards, the statements it
\* sent (those of createDatabase, d, first), the probes it made, and the I/O
\* calls that failed.
Pass(err, d, st, stmts, probes, failed) ==
    [err |-> err, store |-> st, stmts |-> d.stmts \o stmts, pings |-> probes,
     ctrl |-> d.ctrl, dsnBuilt |-> d.dsnBuilt, failed |-> failed]

NoPass(st) == Pass("", DatabaseSkipped(st), st, <<>>, 0, <<>>)

startProbeIgnored(handle, fault, d, t) ==
    IF t.err # "" THEN Pass(t.err, d, t.store, t.stmts, 0, t.failed)
    ELSE Only({ Pass("", d, t.store, t.stmts, 1, p.failed) : p \in {Ping(handle, fault)} })

\* A start once its table step has returned t: the liveness probe.
startProbe(handle, fault, d, t) ==
    IF t.err # "" THEN Pass(t.err, d, t.store, t.stmts, 0, t.failed)
    ELSE Only({ Pass(p.err, d, t.store, t.stmts, 1, p.failed) : p \in {Ping(handle, fault)} })

\* logsExporter.start once createDatabase has returned d.
logsStartTables(c, handle, fault, d) ==
    IF d.err # "" THEN Pass(d.err, d, d.store, <<>>, 0, d.failed)
    ELSE Only({ startProbe(handle, fault, d, t) :
                  t \in {createLogsTable(c, handle, d.store, fault)} })

logsStart(c, handle, st, fault, order) ==
    IF handle = "nil" THEN NoPass(st)
    ELSE Only({ logsStartTables(c, handle, fault, d) :
                  d \in {createDatabase(c, st, fault, order)} })

\* tracesExporter.start once createDatabase has returned d: no table step.
tracesStartProbe(handle, fault, d) ==
    IF d.err # "" THEN Pass(d.err, d, d.store, <<>>, 0, d.failed)
    ELSE Only({ Pass(p.err, d, d.store, <<>>, 1, p.failed) : p \in {Ping(handle, fault)} })

tracesStart(c, handle, st, fault, order) ==
    IF handle = "nil" THEN NoPass(st)
    ELSE Only({ tracesStartProbe(handle, fault, d) :
                  d \in {createDatabase(c, st, fault, order)} })

\* metricsExporter.start once createDatabase has returned d.
metricsStartTables(c, handle, fault, d) ==
    IF d.err # "" THEN Pass(d.err, d, d.store, <<>>, 0, d.failed)
    ELSE Only({ startProbe(handle, fault, d, t) :
                  t \in {createMetricsTables(c, handle, d.store, fault)} })

metricsStart(c, handle, st, fault, order) ==
    IF handle = "nil" THEN NoPass(st)
    ELSE Only({ metricsStartTables(c, handle, fault, d) :
                  d \in {createDatabase(c, st, fault, order)} })

\* The values a start hands to its logger: db_enabled, the database name of
\* the createDatabase and table records, the statements executeSQL logs and
\* the error of the Error records; which records are written follows from
\* the probes made and the calls that failed.
startLogged(c, handle, r) ==
    [db_enabled |-> handle # "nil", database |-> c.Database,
     sql |-> SelectSeq(r.stmts, IsCreateTable), err |-> r.err,
     probes |-> r.pings, failed |-> r.failed]

\* sql.DB.Close: a second Close returns nil; a failing Close still closes.
DBClose(handle, closeOk) ==
    IF handle = "closed" THEN [db |-> "closed", err |-> "", closed |-> 0]
    ELSE [db |-> "closed", err |-> IF closeOk THEN "" ELSE "close failed", closed |-> 1]

logsShutdown(handle, closeOk) ==
    IF handle # "nil" THEN DBClose(handle, closeOk)
    ELSE [db |-> handle, err |-> "", closed |-> 0]

tracesShutdown(handle, closeOk) ==
    IF handle # "nil" THEN DBClose(handle, closeOk)
    ELSE [db |-> handle, err |-> "", closed |-> 0]

metricsShutdown(handle, closeOk) ==
    IF handle # "nil" THEN DBClose(handle, closeOk)
    ELSE [db |-> handle, err |-> "", closed |-> 0]

(***************************************************************************)
(* Configurations and initial states.                                      *)
(***************************************************************************)
Kinds == {"logs", "traces", "metrics"}

\* Configurations of the connection-string builder.
BuilderConfigs ==
    [ Endpoint : Endpoints, Username : {"", "alice"}, Password : {"", "s3cret"},
      Database : {"", "default", "otel"}, ConnectionParams : ParamMaps,
      CreateSchema : {TRUE}, Compress : {"", "true", "zstd"}, AsyncInsert : BOOLEAN,
      TTLDays : {0}, LogsTableName : {"otel_logs"}, ClusterName : {""} ]

Overrides == {"", "default", "ovr"}

\* Configurations of the exporter lifecycle.
LifecycleConfigs ==
    [ Endpoint : {"", "tcp://h:9000", "tcp://h:9000/%zz"}, Username : {"alice"},
      Password : {"s3cret"}, Database : {"", "default", "otel"},
      ConnectionParams : {[k \in {"dial_timeout"} |-> "10s"]},
      CreateSchema : BOOLEAN, Compress : {"lz4"}, AsyncInsert : {TRUE},
      TTLDays : {7}, LogsTableName : {"app_logs"}, ClusterName : {"", "c1"} ]

AllTableNames(c) ==
    {getLogsTableName(c), "otel_traces"} \cup {metricTypes[i].tableName : i \in DOMAIN metricTypes}

EmptyStore == [dbs |-> {"default"}, tables |-> {}]

\* A store that an earlier run has provisioned under the same configuration.
ProvisionedStore(c) ==
    [dbs |-> {"default", c.Database}, tables |-> {<<c.Database, t>> : t \in AllTableNames(c)}]

NoResult == [dsn |-> EmptyDSN, err |-> "not called"]
NoDB == [conn |-> "nil", err |-> "not called", dsn |-> EmptyDSN, dsnBuilt |-> 0, opened |-> 0]

IdleLifecycle ==
    /\ pc = [e \in Kinds |-> "new"]
    /\ db = [e \in Kinds |-> "nil"]
    /\ ctorErr = [e \in Kinds |-> ""]
    /\ warned = [e \in Kinds |-> FALSE]
    /\ issued = [e \in Kinds |-> <<>>]
    /\ pings = [e \in Kinds |-> 0]
    /\ dsnBuilds = [e \in Kinds |-> 0]
    /\ opens = [e \in Kinds |-> 0]
    /\ ctrl = [e \in Kinds |-> NoCtrl]
    /\ closes = [e \in Kinds |-> 0]
    /\ startRes = [e \in Kinds |-> "none"]
    /\ startErr = [e \in Kinds |-> ""]
    /\ startFault = [e \in Kinds |-> "none"]
    /\ stepFailed = [e \in Kinds |-> <<>>]
    /\ prevRes = [e \in Kinds |-> "none"]
    /\ starts = [e \in Kinds |-> 0]
    /\ shutRes = [e \in Kinds |-> "none"]
    /\ shutdowns = [e \in Kinds |-> 0]

NoRender == [kind |-> "none", table |-> "", sql |-> <<>>, cluster |-> "", engine |-> "", ttl |-> ""]

\* GenerateTTLExpr's "" result.
NoTTLExpr == [fn |-> "", count |-> 0, field |-> ""]

NoTable == [called |-> FALSE, template |-> <<>>, err |-> "", stmts |-> <<>>]

IdleRender ==
    /\ rendered = NoRender
    /\ ttlOut = [called |-> FALSE, ttl |-> 0, expr |-> NoTTLExpr]
    /\ tableOut = NoTable
    /\ renders = 0

\* Configurations of the runs compared under a change of the password.
SecretConfigs ==
    [ Endpoint : {"tcp://h:9000", "tcp://h:9000/%zz"}, Username : {"", "alice"},
      Password : {"s3cret"}, Database : {"otel"},
      ConnectionParams : {[k \in {"dial_timeout"} |-> "10s"]},
      CreateSchema : {TRUE}, Compress : {"lz4"}, AsyncInsert : {TRUE},
      TTLDays : {7}, LogsTableName : {"app_logs"}, ClusterName : {""} ]

OtherPasswords == {"", "hunter2"}

NoEnsure ==
    [called |-> FALSE, err |-> "", stmts |-> <<>>, ctrl |-> NoCtrl, dsnBuilt |-> 0, failed |-> <<>>]

IdleSteps ==
    /\ step = [e \in Kinds |-> 0]
    /\ inflight = [e \in Kinds |-> "none"]
    /\ answer = [e \in Kinds |-> [err |-> "", failed |-> <<>>]]
    /\ ctx = "live"
    /\ pushRes = [e \in Kinds |-> "none"]
    /\ pushes = [e \in Kinds |-> 0]

IdleEnsure == ensureOut = NoEnsure /\ ensures = 0

\* Configurations of the database-ensure step.
EnsureConfigs ==
    [ Endpoint : {"tcp://h:9000", "tcp://h:9000/", "tcp://h:9000/uridb"}, Username : {"alice"},
      Password : {"s3cret"}, Database : {"", "default", "otel"},
      ConnectionParams : {[k \in {"dial_timeout"} |-> "10s"]},
      CreateSchema : BOOLEAN, Compress : {"lz4"}, AsyncInsert : {TRUE},
      TTLDays : {7}, LogsTableName : {"app_logs"}, ClusterName : {"", "c1"} ]

Init ==
    /\ cfg \in LifecycleConfigs
    /\ present \in {{k} : k \in Kinds}
    /\ store \in {EmptyStore, ProvisionedStore(cfg)}
    /\ storeBefore = [e \in Kinds |-> store]
    /\ override = "" /\ dsnOut = NoResult /\ dbOut = NoDB /\ calls = 0
    /\ IdleLifecycle
    /\ IdleRender
    /\ IdleEnsure
    /\ IdleSteps

InitBuilder ==
    /\ cfg \in BuilderConfigs
    /\ override \in Overrides
    /\ dsnOut = NoResult /\ dbOut = NoDB /\ calls = 0
    /\ present = {}
    /\ store = EmptyStore
    /\ storeBefore = [e \in Kinds |-> store]
    /\ IdleLifecycle
    /\ IdleRender
    /\ IdleEnsure
    /\ IdleSteps

(***************************************************************************)
(* Actions.                                                                *)
(***************************************************************************)
Constructor(e, c, order, openOk) ==
    CASE e = "logs" -> newLogsExporter(c, order, openOk)
      [] e = "traces" -> newTracesExporter(c, order, openOk)
      [] e = "metrics" -> newMetricsExporter(c, order, openOk)

StartOf(e, c, handle, st, fault, order) ==
    CASE e = "logs" -> logsStart(c, handle, st, fault, order)
      [] e = "traces" -> tracesStart(c, handle, st, fault, order)
      [] e = "metrics" -> metricsStart(c, handle, st, fault, order)

ShutdownOf(e, handle, closeOk) ==
    CASE e = "logs" -> logsShutdown(handle, closeOk)
      [] e = "traces" -> tracesShutdown(handle, closeOk)
      [] e = "metrics" -> metricsShutdown(handle, closeOk)

\* The I/O calls a start of this kind can reach.
FaultsOf(e) ==
    CASE e = "logs" -> {"none", "ctrlOpen", "createDb", "table1", "ping"}
      [] e = "traces" -> {"none", "ctrlOpen", "createDb", "ping"}
      [] e = "metrics" -> FaultPoints

\* The factory creates the exporter of kind e.
Construct(e) ==
    /\ e \in present /\ pc[e] = "new"
    /\ \E order \in IterationOrders(cfg.ConnectionParams), openOk \in BOOLEAN :
         LET r == Constructor(e, cfg, order, openOk) IN
         /\ db' = [db EXCEPT ![e] = r.db]
         /\ ctorErr' = [ctorErr EXCEPT ![e] = r.err]
         /\ warned' = [warned EXCEPT ![e] = r.warned]
         /\ dsnBuilds' = [dsnBuilds EXCEPT ![e] = @ + r.dsnBuilt]
         /\ opens' = [opens EXCEPT ![e] = @ + r.opened]
    /\ pc' = [pc EXCEPT ![e] = "constructed"]
    /\ UNCHANGED <<cfg, stepVars, pushVars, harnessVars, renderVars, ensureVars, present, store, issued, pings, ctrl, closes, startRes,
                   startErr, startFault, stepFailed, prevRes, storeBefore, starts,
                   shutRes, shutdowns>>

HandleAfterStartClosedOnError(handle, r) == IF r.err # "" THEN "closed" ELSE handle

\* The exporter's handle after a start that returned r: no path of start,
\* createDatabase or the table step calls Close on e.db.
HandleAfterStart(handle, r) == handle

\* The collector calls start on the exporter of kind e.
Start(e) ==
    /\ e \in present /\ pc[e] # "new" /\ starts[e] < MaxStarts
    /\ \E fault \in FaultsOf(e), order \in IterationOrders(cfg.ConnectionParams) :
         LET r == StartOf(e, cfg, db[e], store, fault, order) IN
         /\ store' = r.store
         /\ issued' = [issued EXCEPT ![e] = r.stmts]
         /\ pings' = [pings EXCEPT ![e] = r.pings]
         /\ ctrl' = [ctrl EXCEPT ![e] = r.ctrl]
         /\ dsnBuilds' = [dsnBuilds EXCEPT ![e] = @ + r.dsnBuilt]
         /\ stepFailed' = [stepFailed EXCEPT ![e] = r.failed]
         /\ startRes' = [startRes EXCEPT ![e] = IF r.err = "" THEN "ok" ELSE "err"]
         /\ startErr' = [startErr EXCEPT ![e] = r.err]
         /\ startFault' = [startFault EXCEPT ![e] = IF r.failed # <<>> THEN fault ELSE "none"]
         /\ pc' = [pc EXCEPT ![e] = IF r.err = "" THEN "running" ELSE "failed"]
         /\ db' = [db EXCEPT ![e] = HandleAfterStart(db[e], r)]
    /\ prevRes' = [prevRes EXCEPT ![e] = startRes[e]]
    /\ storeBefore' = [storeBefore EXCEPT ![e] = store]
    /\ starts' = [starts EXCEPT ![e] = @ + 1]
    /\ UNCHANGED <<cfg, stepVars, pushVars, harnessVars, renderVars, ensureVars, present,
                   ctorErr, warned, opens, closes, shutRes, shutdowns>>

\* The collector calls shutdown on the exporter of kind e.
Shutdown(e) ==
    /\ e \in present /\ pc[e] # "new" /\ shutdowns[e] < MaxShutdowns
    /\ \E closeOk \in BOOLEAN :
         LET r == ShutdownOf(e, db[e], closeOk) IN
         /\ db' = [db EXCEPT ![e] = r.db]
         /\ closes' = [closes EXCEPT ![e] = @ + r.closed]
         /\ shutRes' = [shutRes EXCEPT ![e] = IF r.err = "" THEN "ok" ELSE "err"]
    /\ pc' = [pc EXCEPT ![e] = "stopped"]
    /\ shutdowns' = [shutdowns EXCEPT ![e] = @ + 1]
    /\ UNCHANGED <<cfg, stepVars, pushVars, harnessVars, renderVars, ensureVars, present, ctorErr, warned, store, issued, pings, dsnBuilds, opens,
                   ctrl, startRes, startErr, startFault, stepFailed, prevRes, storeBefore,
                   starts>>

Next == \E e \in Kinds : Construct(e) \/ Start(e) \/ Shutdown(e)

Spec == Init /\ [][Next]_vars

InitSecret ==
    /\ cfg \in SecretConfigs
    /\ present \in {{k} : k \in Kinds}
    /\ store \in {EmptyStore, ProvisionedStore(cfg)}
    /\ storeBefore = [e \in Kinds |-> store]
    /\ override = "" /\ dsnOut = NoResult /\ dbOut = NoDB /\ calls = 0
    /\ IdleLifecycle
    /\ IdleRender
    /\ IdleEnsure
    /\ IdleSteps

\* The lifecycle from the configurations whose password is varied.
SpecSecret == InitSecret /\ [][Next]_vars

\* A direct call of buildDSN(cfg, override).
CallBuildDSN ==
    /\ calls < MaxCalls
    /\ \E order \in IterationOrders(cfg.ConnectionParams) :
         dsnOut' = buildDSN(cfg, override, order)
    /\ calls' = calls + 1
    /\ UNCHANGED <<cfg, stepVars, pushVars, override, dbOut, lifecycleVars, renderVars, ensureVars>>

\* A direct call of buildDB(cfg, override).
CallBuildDB ==
    /\ calls < MaxCalls
    /\ \E order \in IterationOrders(cfg.ConnectionParams), openOk \in BOOLEAN :
         dbOut' = buildDB(cfg, override, order, openOk)
    /\ calls' = calls + 1
    /\ UNCHANGED <<cfg, stepVars, pushVars, override, dsnOut, lifecycleVars, renderVars, ensureVars>>

NextBuilder == CallBuildDSN \/ CallBuildDB

SpecBuilder == InitBuilder /\ [][NextBuilder]_vars

\* Configurations of the table renderers.
RenderConfigs ==
    [ Endpoint : {"tcp://h:9000"}, Username : {"alice"}, Password : {"s3cret"},
      Database : {"", "default", "otel"},
      ConnectionParams : {[k \in {"dial_timeout"} |-> "10s"]},
      CreateSchema : {TRUE}, Compress : {"lz4"}, AsyncInsert : {TRUE},
      TTLDays : {-1, 0, 1, 7}, LogsTableName : {"", "app_logs"}, ClusterName : {"", "c1"} ]

\* Durations handed to GenerateTTLExpr, in milliseconds.
Durations ==
    { -1 * Hour, 0, 500, Second, 1500, 59 * Second, Minute, 90 * Second, Hour, 90 * Minute,
      150 * Minute, 24 * Hour, 36 * Hour, 48 * Hour, 24 * Hour + Second, 24 * Hour + Minute }

TimeFields == {"Timestamp", "TimeUnix"}

InitRender ==
    /\ cfg \in RenderConfigs
    /\ present = {}
    /\ store = EmptyStore
    /\ storeBefore = [e \in Kinds |-> store]
    /\ override = "" /\ dsnOut = NoResult /\ dbOut = NoDB /\ calls = 0
    /\ IdleLifecycle
    /\ IdleRender
    /\ IdleEnsure
    /\ IdleSteps

\* A direct call of renderLogsTableSQL on the bundled template, and of the
\* clause builders of the logs exporter.
RenderLogs ==
    /\ renders < MaxRenders
    /\ rendered' = [kind |-> "logs", table |-> getLogsTableName(cfg),
                    sql |-> renderLogsTableSQL(cfg, LoadSQLTemplate("logs_table.sql").text),
                    cluster |-> logsBuildClusterClause(cfg),
                    engine |-> buildLogsEngineClause(cfg),
                    ttl |-> logsBuildTTLClause(cfg)]
    /\ renders' = renders + 1
    /\ UNCHANGED <<cfg, stepVars, pushVars, harnessVars, lifecycleVars, ensureVars, ttlOut, tableOut>>

\* A direct call of renderMetricTableSQL for one metric table, and of the
\* clause builders of the metrics exporter.
RenderMetric ==
    /\ renders < MaxRenders
    /\ \E i \in DOMAIN metricTypes :
         rendered' = [kind |-> "metrics", table |-> metricTypes[i].tableName,
                      sql |-> renderMetricTableSQL(cfg,
                                 LoadSQLTemplate(metricTypes[i].templateFile).text,
                                 metricTypes[i].tableName),
                      cluster |-> buildClusterClause(cfg),
                      engine |-> buildMetricsEngineClause(cfg),
                      ttl |-> metricsBuildTTLClause(cfg)]
    /\ renders' = renders + 1
    /\ UNCHANGED <<cfg, stepVars, pushVars, harnessVars, lifecycleVars, ensureVars, ttlOut, tableOut>>

\* A direct call of GenerateTTLExpr.
CallGenerateTTLExpr ==
    /\ renders < MaxRenders
    /\ \E d \in Durations, f \in TimeFields :
         ttlOut' = [called |-> TRUE, ttl |-> d, expr |-> GenerateTTLExpr(d, f)]
    /\ renders' = renders + 1
    /\ UNCHANGED <<cfg, stepVars, pushVars, harnessVars, lifecycleVars, ensureVars, rendered, tableOut>>

\* What the embedded file system can hold under a template's name: the bundled
\* text, the text without its last placeholder, and the text with one more.
LoadedTemplates(filename) ==
    { TemplateText(filename),
      SubSeq(TemplateText(filename), 1, 8) \o <<" PARTITION BY toDate ORDER BY key">>,
      TemplateText(filename) \o <<" SETTINGS ", "%s">> }

TableCreated(template, r) ==
    [called |-> TRUE, template |-> template, err |-> r.err, stmts |-> r.stmts]

\* A direct call of createLogsTable on an exporter with an open handle, the
\* embedded file holding template.
CallCreateLogsTable ==
    /\ renders < MaxRenders
    /\ \E template \in LoadedTemplates("logs_table.sql") :
         \E r \in {createLogsTableLoaded(cfg, "open", store, "none",
                                         [text |-> template, err |-> ""])} :
            /\ tableOut' = TableCreated(template, r)
            /\ store' = r.store
    /\ renders' = renders + 1
    /\ UNCHANGED <<cfg, stepVars, pushVars, harnessVars, ensureVars, rendered, ttlOut, present, pc, db, ctorErr,
                   warned, issued, pings, dsnBuilds, opens, ctrl, closes, startRes, startErr,
                   startFault, stepFailed, prevRes, storeBefore, starts, shutRes, shutdowns>>

\* A direct call of createMetricTable on an exporter with an open handle, the
\* embedded file holding template.
CallCreateMetricTable ==
    /\ renders < MaxRenders
    /\ \E i \in DOMAIN metricTypes :
         \E template \in LoadedTemplates(metricTypes[i].templateFile) :
            \E r \in {createMetricTableLoaded(cfg, "open", store, metricTypes[i].tableName,
                                              TRUE, [text |-> template, err |-> ""])} :
               /\ tableOut' = TableCreated(template, r)
               /\ store' = r.store
    /\ renders' = renders + 1
    /\ UNCHANGED <<cfg, stepVars, pushVars, harnessVars, ensureVars, rendered, ttlOut, present, pc, db, ctorErr,
                   warned, issued, pings, dsnBuilds, opens, ctrl, closes, startRes, startErr,
                   startFault, stepFailed, prevRes, storeBefore, starts, shutRes, shutdowns>>

NextRender ==
    \/ RenderLogs \/ RenderMetric \/ CallGenerateTTLExpr
    \/ CallCreateLogsTable \/ CallCreateMetricTable

SpecRender == InitRender /\ [][NextRender]_vars

InitEnsure ==
    /\ cfg \in EnsureConfigs
    /\ present = {}
    /\ store \in {EmptyStore, ProvisionedStore(cfg)}
    /\ storeBefore = [e \in Kinds |-> store]
    /\ override = "" /\ dsnOut = NoResult /\ dbOut = NoDB /\ calls = 0
    /\ IdleLifecycle
    /\ IdleRender
    /\ IdleEnsure
    /\ IdleSteps

\* What a direct createDatabase call returned and did.
Ensured(r) ==
    [called |-> TRUE, err |-> r.err, stmts |-> r.stmts, ctrl |-> r.ctrl, dsnBuilt |-> r.dsnBuilt,
     failed |-> r.failed]

\* A direct call of createDatabase(ctx, cfg, logger).
CallCreateDatabase ==
    /\ ensures < MaxEnsures
    /\ \E fault \in {"none", "ctrlOpen", "createDb"},
          order \in IterationOrders(cfg.ConnectionParams) :
         \E r \in {createDatabase(cfg, store, fault, order)} :
            /\ ensureOut' = Ensured(r)
            /\ store' = r.store
    /\ ensures' = ensures + 1
    /\ UNCHANGED <<cfg, stepVars, pushVars, harnessVars, renderVars, present, pc, db, ctorErr, warned, issued, pings,
                   dsnBuilds, opens, ctrl, closes, startRes, startErr, startFault, stepFailed, prevRes,
                   storeBefore, starts, shutRes, shutdowns>>

NextEnsure == CallCreateDatabase

SpecEnsure == InitEnsure /\ [][NextEnsure]_vars

(***************************************************************************)
(* Exporters of two kinds side by side, with their push operations.        *)
(***************************************************************************)
\* Numbers of resource entries in a pushed batch.
ResourceCounts == {0, 1, 6, 12}

\* pushLogs, pushTraces, pushMetrics on a batch of n resources, each with one
\* scope: they log a summary, read e.db only to compare it with nil, and
\* return the demonstration error pushLogs raises at every resource index i
\* with i % 12 = 5 and pushMetrics at every i with i % 15 = 11.
pushOf(e, n) ==
    CASE e = "logs" -> [err |-> IF \E i \in 0..(n - 1) : i % 12 = 5 THEN "demo error" ELSE ""]
      [] e = "traces" -> [err |-> ""]
      [] e = "metrics" -> [err |-> IF \E i \in 0..(n - 1) : i % 15 = 11 THEN "demo error" ELSE ""]

\* The collector hands a batch to the exporter of kind e.
Push(e) ==
    /\ e \in present /\ pc[e] # "new" /\ pushes[e] < MaxPushes
    /\ \E n \in ResourceCounts :
         pushRes' = [pushRes EXCEPT ![e] = IF pushOf(e, n).err = "" THEN "ok" ELSE "err"]
    /\ pushes' = [pushes EXCEPT ![e] = @ + 1]
    /\ UNCHANGED <<cfg, stepVars, harnessVars, renderVars, ensureVars, lifecycleVars>>

OwnerConfigs ==
    {c \in LifecycleConfigs :
        c.Endpoint = "tcp://h:9000" /\ c.Database = "otel" /\ c.CreateSchema /\ c.ClusterName = ""}

\* The factory is asked for exporters of two kinds.
InitOwners ==
    /\ cfg \in OwnerConfigs
    /\ present \in {{"logs", "traces"}, {"traces", "metrics"}}
    /\ store = EmptyStore
    /\ storeBefore = [e \in Kinds |-> store]
    /\ override = "" /\ dsnOut = NoResult /\ dbOut = NoDB /\ calls = 0
    /\ IdleLifecycle
    /\ IdleRender
    /\ IdleEnsure
    /\ IdleSteps

\* The start, shutdown and push calls made so far on all exporters.
OwnerCalls ==
    LET Sum(f) == f["logs"] + f["traces"] + f["metrics"]
    IN  Sum(starts) + Sum(shutdowns) + Sum(pushes)

NextOwners ==
    \E e \in Kinds :
        \/ OwnerCalls < MaxOwnerCalls /\ Construct(e)
        \/ OwnerCalls < MaxOwnerCalls /\ Start(e)
        \/ OwnerCalls < MaxOwnerCalls /\ Shutdown(e)
        \/ OwnerCalls < MaxOwnerCalls /\ Push(e)

SpecOwners == InitOwners /\ [][NextOwners]_vars

(***************************************************************************)
(* The starts of the three exporters, one blocking call at a time, against  *)
(* one store and under one context.                                         *)
(***************************************************************************)
\* The table calls of a start: logs creates its one table, metrics one table
\* per metric type, traces none.
TableCalls(e) ==
    CASE e = "logs" -> <<[op |-> "table", table |-> 1]>>
      [] e = "traces" -> <<>>
      [] e = "metrics" -> [i \in DOMAIN metricTypes |-> [op |-> "table", table |-> i]]

\* The calls a start makes in order: createDatabase, its tables, the probe.
StartCalls(e) ==
    <<[op |-> "ensure", table |-> 0]>> \o TableCalls(e) \o <<[op |-> "ping", table |-> 0]>>

CallOutcome(err, st, stmts, failed, probes, control, built) ==
    [err |-> err, store |-> st, stmts |-> stmts, failed |-> failed, pings |-> probes,
     ctrl |-> control, dsnBuilt |-> built]

\* What one call of a start returns when the store answers it.
CallResult(e, c, call, st, order) ==
    IF call.op = "ensure"
    THEN Only({ CallOutcome(d.err, d.store, d.stmts, d.failed, 0, d.ctrl, d.dsnBuilt) :
                  d \in {createDatabase(c, st, "none", order)} })
    ELSE IF call.op = "ping"
    THEN Only({ CallOutcome(p.err, st, <<>>, p.failed, 1, NoCtrl, 0) :
                  p \in {Ping("open", "none")} })
    ELSE IF e = "logs"
    THEN Only({ CallOutcome(t.err, t.store, t.stmts, t.failed, 0, NoCtrl, 0) :
                  t \in {createLogsTable(c, "open", st, "none")} })
    ELSE Only({ CallOutcome(t.err, t.store, t.stmts, t.failed, 0, NoCtrl, 0) :
                  t \in {WrapErr("create metrics tables: ",
                                 createMetricTable(c, "open", st,
                                                   metricTypes[call.table].templateFile,
                                                   metricTypes[call.table].tableName, TRUE))} })

\* Whether the call is handed a context derived from the one start received:
\* ExecContext(ctx, ...) always, PingContext(ctx) in the traces exporter,
\* Ping() without a context in the logs and metrics exporters.
ObservesContext(e, call) == call.op # "ping" \/ e = "traces"

\* The traces exporter bounds its probe with context.WithTimeout(ctx, 10s).
HasOwnDeadline(e, call) == call.op = "ping" /\ e = "traces"

\* Configurations under which every exporter has a handle.
ConcurrentConfigs == {c \in LifecycleConfigs : c.Endpoint = "tcp://h:9000"}

\* The three exporters constructed with open handles, start called on each.
InitConcurrent ==
    /\ cfg \in ConcurrentConfigs
    /\ present = Kinds
    /\ store \in {EmptyStore, ProvisionedStore(cfg)}
    /\ storeBefore = [e \in Kinds |-> store]
    /\ override = "" /\ dsnOut = NoResult /\ dbOut = NoDB /\ calls = 0
    /\ pc = [e \in Kinds |-> "starting"]
    /\ db = [e \in Kinds |-> "open"]
    /\ ctorErr = [e \in Kinds |-> ""]
    /\ warned = [e \in Kinds |-> FALSE]
    /\ issued = [e \in Kinds |-> <<>>]
    /\ pings = [e \in Kinds |-> 0]
    /\ dsnBuilds = [e \in Kinds |-> 1]
    /\ opens = [e \in Kinds |-> 1]
    /\ ctrl = [e \in Kinds |-> NoCtrl]
    /\ closes = [e \in Kinds |-> 0]
    /\ startRes = [e \in Kinds |-> "none"]
    /\ startErr = [e \in Kinds |-> ""]
    /\ startFault = [e \in Kinds |-> "none"]
    /\ stepFailed = [e \in Kinds |-> <<>>]
    /\ prevRes = [e \in Kinds |-> "none"]
    /\ starts = [e \in Kinds |-> 1]
    /\ shutRes = [e \in Kinds |-> "none"]
    /\ shutdowns = [e \in Kinds |-> 0]
    /\ IdleRender
    /\ IdleEnsure
    /\ IdleSteps

\* Whether the call waits on the store: the probe, a table statement, and
\* createDatabase unless it has nothing to create.
Blocks(c, call) ==
    call.op \in {"ping", "table"} \/ (c.CreateSchema /\ c.Database \notin {"", "default"})

\* The start of e reaches its next call and makes it.
StepIssue(e) ==
    /\ pc[e] = "starting" /\ inflight[e] = "none" /\ step[e] < Len(StartCalls(e))
    /\ inflight' = [inflight EXCEPT ![e] = "sent"]
    /\ UNCHANGED <<cfg, pushVars, harnessVars, renderVars, ensureVars, lifecycleVars, step, answer, ctx>>

\* The call of e has run with outcome r; its answer is on its way to start.
Executed(e, call, r) ==
    /\ store' = r.store
    /\ issued' = [issued EXCEPT ![e] = @ \o r.stmts]
    /\ pings' = [pings EXCEPT ![e] = @ + r.pings]
    /\ dsnBuilds' = [dsnBuilds EXCEPT ![e] = @ + r.dsnBuilt]
    /\ ctrl' = IF call.op = "ensure" THEN [ctrl EXCEPT ![e] = r.ctrl] ELSE ctrl
    /\ answer' = [answer EXCEPT ![e] = [err |-> r.err, failed |-> r.failed]]
    /\ inflight' = [inflight EXCEPT ![e] = "done"]
    /\ UNCHANGED <<cfg, pushVars, harnessVars, renderVars, ensureVars, step, ctx, present, pc, db,
                   ctorErr, warned, opens, closes, startRes, startErr, startFault, stepFailed,
                   prevRes, storeBefore, starts, shutRes, shutdowns>>

\* The store executes the statement, or answers the probe, e is waiting on.
StepRespond(e) ==
    /\ pc[e] = "starting" /\ inflight[e] = "sent"
    /\ Blocks(cfg, StartCalls(e)[step[e] + 1])
    /\ \E order \in IterationOrders(cfg.ConnectionParams) :
         \E r \in {CallResult(e, cfg, StartCalls(e)[step[e] + 1], store, order)} :
            Executed(e, StartCalls(e)[step[e] + 1], r)

\* The call e made runs without waiting on the store: createDatabase when it
\* has nothing to create.
StepLocal(e) ==
    /\ pc[e] = "starting" /\ inflight[e] = "sent"
    /\ ~Blocks(cfg, StartCalls(e)[step[e] + 1])
    /\ \E order \in IterationOrders(cfg.ConnectionParams) :
         \E r \in {CallResult(e, cfg, StartCalls(e)[step[e] + 1], store, order)} :
            Executed(e, StartCalls(e)[step[e] + 1], r)

\* The call of e returns err to start, which returns it, goes on to its next
\* call or, after the probe, returns nil.
Returned(e, call, err, failed) ==
    /\ stepFailed' = [stepFailed EXCEPT ![e] = failed]
    /\ startErr' = [startErr EXCEPT ![e] = err]
    /\ pc' = [pc EXCEPT ![e] = IF err # "" THEN "failed"
                               ELSE IF call.op = "ping" THEN "running" ELSE "starting"]
    /\ startRes' = [startRes EXCEPT ![e] = IF err # "" THEN "err"
                                           ELSE IF call.op = "ping" THEN "ok" ELSE @]
    /\ step' = [step EXCEPT ![e] = @ + 1]
    /\ inflight' = [inflight EXCEPT ![e] = "none"]
    /\ UNCHANGED <<cfg, pushVars, harnessVars, renderVars, ensureVars, ctx, answer, present, db, ctorErr,
                   warned, store, issued, pings, dsnBuilds, opens, ctrl, closes, startFault,
                   prevRes, storeBefore, starts, shutRes, shutdowns>>

\* The call e made returns the answer it got.
StepReturn(e) ==
    /\ pc[e] = "starting" /\ inflight[e] = "done"
    /\ Returned(e, StartCalls(e)[step[e] + 1], answer[e].err, answer[e].failed)

\* The call e is waiting on returns the error of its context: the context of
\* start was cancelled, or the call's own deadline passed. The statement may
\* or may not have been executed by then.
StepAbort(e) ==
    /\ pc[e] = "starting" /\ inflight[e] # "none"
    /\ ObservesContext(e, StartCalls(e)[step[e] + 1])
    /\ ctx = "cancelled" \/ HasOwnDeadline(e, StartCalls(e)[step[e] + 1])
    /\ Blocks(cfg, StartCalls(e)[step[e] + 1])
    /\ Returned(e, StartCalls(e)[step[e] + 1], "context canceled",
                <<StartCalls(e)[step[e] + 1].op>>)

\* The collector cancels the context it passed to start, or its deadline passes.
Cancel ==
    /\ ctx = "live" /\ \E e \in Kinds : pc[e] = "starting"
    /\ ctx' = "cancelled"
    /\ UNCHANGED <<cfg, pushVars, harnessVars, renderVars, ensureVars, lifecycleVars, step, inflight,
                   answer>>

NextConcurrent ==
    \E e \in Kinds : StepIssue(e) \/ StepLocal(e) \/ StepRespond(e) \/ StepReturn(e)

SpecConcurrent == InitConcurrent /\ [][NextConcurrent]_vars

NextCancel ==
    \/ Cancel
    \/ \E e \in Kinds : StepIssue(e) \/ StepLocal(e) \/ StepRespond(e) \/ StepReturn(e)
                        \/ StepAbort(e)

\* The steps that need no answer from the store.
Progress == \E e \in Kinds : StepIssue(e) \/ StepLocal(e) \/ StepReturn(e) \/ StepAbort(e)

\* The goroutines running the starts keep running, and database/sql returns
\* from a call whose context is done; nothing obliges the store to answer.
\* Every start ends after finitely many steps, so fairness of the steps taken
\* together is fairness of each exporter's steps.
SpecCancel == InitConcurrent /\ [][NextCancel]_vars /\ WF_vars(Progress)

(***************************************************************************)
(* Properties.                                                             *)
(***************************************************************************)
Called == dsnOut.err # "not called"

\* The database an endpoint path of the model names ("" when it names none).
PathDatabase(path) == IF path = "/uridb" THEN "uridb" ELSE ""

ExpectedDatabase(c, database) ==
    IF database # "" THEN database
    ELSE IF c.Database # "" THEN c.Database
    ELSE IF PathDatabase(UrlParse(c.Endpoint).Path) # "" THEN PathDatabase(UrlParse(c.Endpoint).Path)
    ELSE "default"

\* C1: whenever buildDSN succeeds, the path of the returned URI names the
\* override if it is non-empty, else cfg.Database if it is non-empty, else the
\* database named by the endpoint's own path, else "default".
C1_DatabasePrecedence ==
    (Called /\ dsnOut.err = "") => dsnOut.dsn.path = "/" \o ExpectedDatabase(cfg, override)

IssuedDDL(e) == {i \in DOMAIN issued[e] : IsCreateDb(issued[e][i]) \/ IsCreateTable(issued[e][i])}

\* C2: with createSchema false no start of any exporter sends a CREATE DATABASE
\* or a CREATE TABLE statement.
C2_NoDDLWithoutCreateSchema ==
    ~cfg.CreateSchema => \A e \in Kinds : IssuedDDL(e) = {}

\* C3: with an empty endpoint no exporter ever builds a connection string or
\* opens a handle, its start sends no statement and no probe and succeeds,
\* and its shutdown closes nothing and succeeds.
C3_LogOnlyMode ==
    cfg.Endpoint = "" =>
        \A e \in Kinds :
            /\ dsnBuilds[e] = 0 /\ opens[e] = 0 /\ db[e] = "nil" /\ ctorErr[e] = ""
            /\ issued[e] = <<>> /\ pings[e] = 0 /\ ctrl[e] = NoCtrl /\ startRes[e] # "err"
            /\ closes[e] = 0 /\ shutRes[e] # "err"

C3_Witness ==
    /\ cfg.Endpoint = ""
    /\ \E e \in Kinds : startRes[e] = "ok" /\ shutRes[e] = "ok" /\ pc[e] = "stopped"

\* C4: a start in which the database step, a table statement or the probe
\* failed returns an error, and a start that succeeds on an exporter with a
\* handle has made its probe with no step failing.
C4_StartPropagatesErrors ==
    \A e \in Kinds :
        /\ stepFailed[e] # <<>> => startRes[e] = "err"
        /\ (startRes[e] = "ok" /\ db[e] # "nil") => (pings[e] = 1 /\ stepFailed[e] = <<>>)

C4_Witness ==
    \E e \in Kinds : startRes[e] = "err" /\ stepFailed[e] = <<"ping">> /\ pings[e] = 1

\* C5: shutdown never returns an error.
C5_ShutdownAlwaysSucceeds ==
    \A e \in Kinds : shutRes[e] # "err"

\* C6: a constructor never returns an error; when building the connection
\* string or opening the handle failed in it, the exporter has no handle and
\* its start and shutdown send no statement, no probe, close nothing and succeed.
C6_ConstructionFallback ==
    \A e \in Kinds :
        /\ ctorErr[e] = ""
        /\ (cfg.Endpoint # "" /\ warned[e]) =>
              /\ db[e] = "nil"
              /\ issued[e] = <<>> /\ pings[e] = 0 /\ ctrl[e] = NoCtrl /\ closes[e] = 0
              /\ startRes[e] # "err" /\ shutRes[e] # "err"

C6_Witness ==
    \E e \in Kinds :
        /\ cfg.Endpoint = "tcp://h:9000" /\ warned[e] /\ opens[e] = 1
        /\ startRes[e] = "ok" /\ shutRes[e] = "ok"

\* The tables each signal kind requires.
RequiredTables(e) ==
    CASE e = "logs" -> {getLogsTableName(cfg)}
      [] e = "traces" -> {"otel_traces"}
      [] e = "metrics" -> {metricTypes[i].tableName : i \in DOMAIN metricTypes}

CreatesOf(e, table) ==
    {i \in DOMAIN issued[e] :
        /\ IsCreateTable(issued[e][i]) /\ HasIfNotExists(issued[e][i])
        /\ issued[e][i][4] = table}

\* C7: a start that succeeded with a handle and createSchema true has sent
\* exactly one CREATE TABLE IF NOT EXISTS for each table its kind requires.
C7_AllTablesCreated ==
    \A e \in Kinds :
        (startRes[e] = "ok" /\ pings[e] = 1 /\ cfg.CreateSchema) =>
            \A t \in RequiredTables(e) : Cardinality(CreatesOf(e, t)) = 1

\* C8: every statement of a pass carries IF NOT EXISTS; a pass the environment
\* does not fail succeeds whatever the store already holds; and a pass that
\* follows a successful one, or runs on a provisioned store, leaves the
\* store's databases and tables as they were.
C8_ProvisioningIdempotent ==
    \A e \in Kinds :
        /\ \A i \in DOMAIN issued[e] : HasIfNotExists(issued[e][i])
        /\ (starts[e] >= 1 /\ db[e] = "open" /\ startFault[e] = "none") => startRes[e] = "ok"
        /\ (starts[e] >= 2 /\ db[e] = "open" /\ startFault[e] = "none" /\ prevRes[e] = "ok")
              => store = storeBefore[e]
        /\ (starts[e] >= 1 /\ db[e] = "open" /\ startFault[e] = "none"
              /\ storeBefore[e] = ProvisionedStore(cfg))
              => store = storeBefore[e]

C8_Witness ==
    \E e \in Kinds :
        /\ starts[e] = 2 /\ db[e] = "open" /\ prevRes[e] = "ok" /\ startRes[e] = "ok"
        /\ startFault[e] = "none" /\ Len(issued[e]) >= 2 /\ IsCreateDb(issued[e][1])
        /\ store = storeBefore[e] /\ store # EmptyStore

Unparsable == {"tcp://h:9000/%zz", "://h:9000"}

\* C9: buildDSN fails with an empty connection string exactly on an empty
\* endpoint (missing endpoint) and on one that does not parse (invalid
\* endpoint), and buildDB then opens no handle.
C9_EndpointErrors ==
    /\ Called =>
          /\ cfg.Endpoint = "" => (dsnOut.err = "endpoint must be specified" /\ dsnOut.dsn = EmptyDSN)
          /\ cfg.Endpoint \in Unparsable => (dsnOut.err = "invalid endpoint format" /\ dsnOut.dsn = EmptyDSN)
          /\ cfg.Endpoint \notin Unparsable \cup {""} => dsnOut.err = ""
    /\ (dbOut.err # "not called" /\ cfg.Endpoint \in Unparsable \cup {""}) =>
          (dbOut.conn = "nil" /\ dbOut.opened = 0 /\ dbOut.err # "")

C9_Witness ==
    /\ cfg.Endpoint \in Unparsable
    /\ dsnOut.err = "invalid endpoint format"
    /\ dbOut.err = "invalid endpoint format" /\ dbOut.opened = 0

HttpsEndpoints == {"https://h:8443/uridb?secure=false", "HTTPS://h:8443?secure=false&secure=0"}

SecureValues(query) == {query[i][2] : i \in {j \in DOMAIN query : query[j][1] = "secure"}}

\* C10: for an https endpoint the query of the returned URI carries
\* secure=true and no other value of secure, whatever the endpoint's query or
\* connectionParams gave for it.
C10_SecureForced ==
    (Called /\ dsnOut.err = "" /\ cfg.Endpoint \in HttpsEndpoints) =>
        SecureValues(dsnOut.dsn.query) = {"true"}

C10_Witness ==
    /\ Called /\ dsnOut.err = ""
    /\ cfg.Endpoint = "https://h:8443/uridb?secure=false"
    /\ "secure" \in DOMAIN cfg.ConnectionParams
    /\ SecureValues(dsnOut.dsn.query) = {"true"}

\* The values a query (a sequence of key=value pairs) gives for a key, in order.
QueryValues(query, k) ==
    LET hits == SelectSeq(query, LAMBDA p : p[1] = k)
    IN [i \in DOMAIN hits |-> hits[i][2]]

HintKeys == {"compress", "async_insert"}

ConfiguredHint(c, k) ==
    IF k = "compress" THEN (IF c.Compress \in {"", "true"} THEN "lz4" ELSE c.Compress)
    ELSE FormatBool(c.AsyncInsert)

\* C11: in the URI buildDSN returns, compress and async_insert carry the
\* connectionParams value when connectionParams has the key, else the values
\* of the endpoint's query when it has the key, and the value configured by
\* cfg.Compress / cfg.AsyncInsert only when neither has it.
C11_HintLayering ==
    (Called /\ dsnOut.err = "") =>
        \A k \in HintKeys :
            QueryValues(dsnOut.dsn.query, k) =
                IF k \in DOMAIN cfg.ConnectionParams THEN <<cfg.ConnectionParams[k]>>
                ELSE IF QueryValues(UrlParse(cfg.Endpoint).RawQuery, k) # <<>>
                THEN QueryValues(UrlParse(cfg.Endpoint).RawQuery, k)
                ELSE <<ConfiguredHint(cfg, k)>>

C11_Witness ==
    /\ Called /\ dsnOut.err = ""
    /\ cfg.Endpoint = "tcp://h:9000?compress=zstd&async_insert=0"
    /\ cfg.ConnectionParams = [k \in {"compress"} |-> "gzip"]
    /\ cfg.Compress = "zstd" /\ cfg.AsyncInsert
    /\ QueryValues(dsnOut.dsn.query, "compress") = <<"gzip">>
    /\ QueryValues(dsnOut.dsn.query, "async_insert") = <<"0">>

\* The text pieces of a connection string of the model.
DSNPieces(dsn) ==
    {dsn.scheme, dsn.host, dsn.path}
    \cup {dsn.userinfo[i] : i \in DOMAIN dsn.userinfo}
    \cup {dsn.query[i][1] : i \in DOMAIN dsn.query}
    \cup {dsn.query[i][2] : i \in DOMAIN dsn.query}

\* C12: the authority of the URI buildDSN returns holds cfg.Username and
\* cfg.Password exactly when cfg.Username is non-empty; with an empty username
\* the user information is the endpoint's own and a configured password is
\* no part of the URI.
C12_CredentialsOnlyWithUsername ==
    (Called /\ dsnOut.err = "") =>
        /\ (dsnOut.dsn.userinfo = <<cfg.Username, cfg.Password>>) <=> (cfg.Username # "")
        /\ cfg.Username = "" =>
              /\ dsnOut.dsn.userinfo = UrlParse(cfg.Endpoint).User
              /\ cfg.Password # "" => cfg.Password \notin DSNPieces(dsnOut.dsn)

C12_Witness ==
    /\ Called /\ dsnOut.err = ""
    /\ cfg.Username = "" /\ cfg.Password = "s3cret"
    /\ cfg.Endpoint = "tcp://bob:pw@h:9000"
    /\ dsnOut.dsn.userinfo = <<"bob", "pw">>

\* C13: for a fixed configuration and override every call of buildDSN returns
\* the same URI and error, whatever order the iteration over connectionParams
\* takes: a call after the first never changes the result, and buildDB builds
\* the same connection string.
C13_Deterministic ==
    [][ /\ Called => dsnOut' = dsnOut
        /\ (Called /\ dbOut'.err # "not called") =>
              (dbOut'.dsn = dsnOut.dsn /\ (dsnOut.err # "" => dbOut'.err = dsnOut.err)) ]_vars

C13_Witness ==
    /\ calls = 2 /\ dbOut.err = "not called" /\ dsnOut.err = ""
    /\ DOMAIN cfg.ConnectionParams = {"compress", "async_insert"}
    /\ QueryValues(dsnOut.dsn.query, "compress") = <<"none">>
    /\ QueryValues(dsnOut.dsn.query, "async_insert") = <<"1">>

Rendered == rendered.kind # "none"

\* The Distributed engine clause over the local table of a table name.
DistributedOver(c, table) ==
    "Distributed(" \o c.ClusterName \o ", " \o c.Database \o ", " \o table \o "_local, rand())"

\* C14: for the logs and the metrics clause builders alike, with clusterName
\* empty the cluster clause is "" and the engine clause is MergeTree(); with
\* clusterName set the cluster clause is ON CLUSTER <clusterName> and the
\* engine clause is a Distributed one; the rendered DDL carries both clauses.
C14_ClusterGating ==
    Rendered =>
        /\ rendered.sql[6] = rendered.cluster /\ rendered.sql[8] = rendered.engine
        /\ cfg.ClusterName = "" => (rendered.cluster = "" /\ rendered.engine = "MergeTree()")
        /\ cfg.ClusterName # "" =>
              /\ rendered.cluster = "ON CLUSTER " \o cfg.ClusterName
              /\ \E t \in AllTableNames(cfg) \cup {"otel_metrics"} :
                    rendered.engine = DistributedOver(cfg, t)

C14_Witness ==
    /\ rendered.kind = "metrics" /\ cfg.ClusterName = "c1"
    /\ rendered.cluster = "ON CLUSTER c1"
    /\ rendered.engine # "MergeTree()"

\* C15: with clusterName set, the engine clause in the DDL of a table is the
\* Distributed clause over <that table's name>_local.
C15_LocalTableOfSameName ==
    (Rendered /\ cfg.ClusterName # "") =>
        rendered.sql[8] = DistributedOver(cfg, rendered.table)

TimestampColumn(kind) == IF kind = "logs" THEN "Timestamp" ELSE "TimeUnix"

DayText == [d \in {1, 7} |-> IF d = 1 THEN "1" ELSE "7"]

\* C16: the rendered DDL carries the TTL clause; the clause is
\* TTL toDateTime(<column>) + toIntervalDay(<ttlDays>) on the signal's
\* timestamp column when ttlDays > 0 and the empty string otherwise.
C16_TTLClause ==
    Rendered =>
        /\ rendered.sql[10] = rendered.ttl
        /\ rendered.ttl =
              IF cfg.TTLDays > 0
              THEN "TTL toDateTime(" \o TimestampColumn(rendered.kind) \o ") + toIntervalDay("
                   \o DayText[cfg.TTLDays] \o ")"
              ELSE ""

C16_Witness ==
    /\ rendered.kind = "metrics" /\ cfg.TTLDays = 7
    /\ rendered.sql[10] = "TTL toDateTime(TimeUnix) + toIntervalDay(7)"

\* Milliseconds of the unit each interval function counts.
UnitMillis ==
    [ toIntervalDay |-> 24 * 60 * 60 * 1000, toIntervalHour |-> 60 * 60 * 1000,
      toIntervalMinute |-> 60 * 1000, toIntervalSecond |-> 1000 ]

LargestUnit(d) ==
    IF d % UnitMillis.toIntervalDay = 0 THEN "toIntervalDay"
    ELSE IF d % UnitMillis.toIntervalHour = 0 THEN "toIntervalHour"
    ELSE IF d % UnitMillis.toIntervalMinute = 0 THEN "toIntervalMinute"
    ELSE "toIntervalSecond"

\* C17: GenerateTTLExpr returns "" for d <= 0; for d > 0 it counts d in days
\* when d is a multiple of 24 hours, else in hours when a multiple of an hour,
\* else in minutes when a multiple of a minute, else in seconds, on the given
\* time field; for a whole number of seconds, count times unit is d.
C17_TTLUnitSelection ==
    ttlOut.called =>
        /\ ttlOut.ttl <= 0 => ttlOut.expr = NoTTLExpr
        /\ ttlOut.ttl > 0 =>
              /\ ttlOut.expr.fn = LargestUnit(ttlOut.ttl)
              /\ ttlOut.expr.field \in TimeFields
              /\ ttlOut.ttl % 1000 = 0 =>
                    ttlOut.expr.count * UnitMillis[ttlOut.expr.fn] = ttlOut.ttl

C17_Witness ==
    /\ ttlOut.called /\ ttlOut.ttl = 2 * UnitMillis.toIntervalDay
    /\ ttlOut.expr = [fn |-> "toIntervalDay", count |-> 2, field |-> "Timestamp"]

\* Config.database(): the effective database name.
EffectiveDatabase(c) == IF c.Database = "" THEN "default" ELSE c.Database

\* C18: every CREATE TABLE statement a start sends names the effective
\* database, "default" when the database option is empty.
C18_TablesInEffectiveDatabase ==
    \A e \in Kinds : \A i \in DOMAIN issued[e] :
        (cfg.CreateSchema /\ IsCreateTable(issued[e][i])) =>
            issued[e][i][2] = EffectiveDatabase(cfg)

\* What a constructor call returns and logs.
ConstructorOutput(e, c, order, openOk) ==
    Only({ [ret |-> k.err, warned |-> k.warned, logged |-> k.logged, db |-> k.db] :
             k \in {Constructor(e, c, order, openOk)} })

\* What a start call returns and logs, and what it leaves in the store.
StartOutput(e, c, handle, st, fault, order) ==
    Only({ [ret |-> r.err, logged |-> startLogged(c, handle, r), store |-> r.store] :
             r \in {StartOf(e, c, handle, st, fault, order)} })

\* C19: from every reachable state, and for the same outcomes of the calls to
\* the environment, a constructor call and a start call return the same
\* error, log the same values and leave the same handle state and store when
\* the configured password is replaced by another one (shutdown does not read
\* the configuration).
C19_PasswordIndependent ==
    \A e \in present : \A p \in OtherPasswords :
        \A order \in IterationOrders(cfg.ConnectionParams) :
            /\ \A openOk \in BOOLEAN :
                  ConstructorOutput(e, cfg, order, openOk)
                      = ConstructorOutput(e, [cfg EXCEPT !.Password = p], order, openOk)
            /\ \A fault \in FaultsOf(e) :
                  StartOutput(e, cfg, db[e], store, fault, order)
                      = StartOutput(e, [cfg EXCEPT !.Password = p], db[e], store, fault, order)

C19_Witness ==
    \E e \in Kinds :
        /\ cfg.Username = "alice" /\ cfg.Password = "s3cret"
        /\ startRes[e] = "err" /\ stepFailed[e] = <<"createDb">>
        /\ ctrl[e].opened = 1

\* C20: createDatabase connects and sends CREATE DATABASE IF NOT EXISTS for
\* the effective database exactly when createSchema is true and the effective
\* database (cfg.Database, else the database of the endpoint's path, else
\* "default") is not "default"; otherwise it builds no connection, sends
\* nothing and returns success.
C20_EnsureExactlyWhenNeeded ==
    ensureOut.called =>
        IF cfg.CreateSchema /\ ExpectedDatabase(cfg, cfg.Database) # "default"
        THEN /\ ensureOut.dsnBuilt = 1
             /\ ensureOut.ctrl.opened = 1 =>
                   ensureOut.stmts = << <<CreateDbHead, ExpectedDatabase(cfg, cfg.Database)>> >>
        ELSE /\ ensureOut.dsnBuilt = 0 /\ ensureOut.ctrl = NoCtrl
             /\ ensureOut.stmts = <<>> /\ ensureOut.err = ""

\* C21: whenever the database-ensure step opened a control connection, that
\* connection was scoped to the database "default" and was closed before the
\* step returned, whether CREATE DATABASE succeeded or failed: after start
\* returns, every control connection opened has been closed.
C21_ControlConnectionClosed ==
    \A e \in Kinds :
        /\ ctrl[e].closed = ctrl[e].opened
        /\ ctrl[e].opened > 0 =>
              /\ ctrl[e].scope = "/default"
              /\ Len(issued[e]) >= 1 /\ IsCreateDb(issued[e][1])
        /\ stepFailed[e] = <<"createDb">> => ctrl[e].opened = 1

C21_Witness ==
    \E e \in Kinds :
        /\ startRes[e] = "err"
        /\ stepFailed[e] = <<"createDb">>
        /\ ctrl[e] = [opened |-> 1, closed |-> 1, scope |-> "/default"]

\* The names of the tables the CREATE TABLE statements of the last start of e
\* named, in the order they were sent.
TablesIssued(e) ==
    LET creates == SelectSeq(issued[e], IsCreateTable)
    IN  [i \in DOMAIN creates |-> creates[i][4]]

MetricTableOrder ==
    <<"otel_metrics_gauge", "otel_metrics_sum", "otel_metrics_histogram",
      "otel_metrics_summary", "otel_metrics_exponential_histogram">>

\* C22: in a start with a handle, CREATE DATABASE is sent only as the first
\* statement and a CREATE TABLE is sent only when the database step did not
\* fail; the metric tables are created one at a time in the order gauge, sum,
\* histogram, summary, exponential histogram; and the probe is made only when
\* every statement of the pass succeeded, all tables of the kind having been sent.
C22_ProvisioningOrder ==
    \A e \in Kinds :
        db[e] # "nil" =>
            /\ \A i \in DOMAIN issued[e] : IsCreateDb(issued[e][i]) => i = 1
            /\ TablesIssued(e) # <<>> =>
                  /\ stepFailed[e] \notin {<<"open">>, <<"createDb">>}
                  /\ (cfg.CreateSchema /\ cfg.Database \notin {"", "default"})
                        => IsCreateDb(issued[e][1])
            /\ e = "metrics" =>
                  /\ Len(TablesIssued(e)) <= Len(MetricTableOrder)
                  /\ \A i \in DOMAIN TablesIssued(e) : TablesIssued(e)[i] = MetricTableOrder[i]
            /\ pings[e] = 1 =>
                  /\ stepFailed[e] \in {<<>>, <<"ping">>}
                  /\ e = "metrics" => TablesIssued(e) = MetricTableOrder
                  /\ e = "logs" => TablesIssued(e) = <<getLogsTableName(cfg)>>

C22_Witness ==
    /\ db["metrics"] = "open" /\ startRes["metrics"] = "ok" /\ pings["metrics"] = 1
    /\ Len(issued["metrics"]) = 6 /\ IsCreateDb(issued["metrics"][1])
    /\ TablesIssued("metrics") = MetricTableOrder

\* C23: when the environment fails the CREATE TABLE of the k-th metric table,
\* the start of the metrics exporter has sent exactly the first k table
\* statements, each once, has created no later table, has made no probe and
\* has returned an error whose text ends with the error of the failed call.
C23_MetricsFailFast ==
    \A k \in DOMAIN MetricTableOrder :
        (db["metrics"] = "open" /\ startFault["metrics"] = TableFault[k]
            /\ stepFailed["metrics"] = <<"exec">>) =>
            /\ TablesIssued("metrics") = SubSeq(MetricTableOrder, 1, k)
            /\ \A i, j \in DOMAIN issued["metrics"] :
                  issued["metrics"][i] = issued["metrics"][j] => i = j
            /\ \A j \in k..Len(MetricTableOrder) :
                  <<EffectiveDatabase(cfg), MetricTableOrder[j]>> \in store.tables
                      => <<EffectiveDatabase(cfg), MetricTableOrder[j]>>
                            \in storeBefore["metrics"].tables
            /\ pings["metrics"] = 0
            /\ startRes["metrics"] = "err"
            /\ startErr["metrics"] = "create metrics tables: create table: exec: exec failed"

C23_Witness ==
    /\ db["metrics"] = "open" /\ startFault["metrics"] = "table3"
    /\ stepFailed["metrics"] = <<"exec">> /\ startRes["metrics"] = "err"
    /\ Len(TablesIssued("metrics")) = 3 /\ pings["metrics"] = 0
    /\ storeBefore["metrics"] = EmptyStore /\ Cardinality(store.tables) = 2

PlaceholderCount(template) == Len(SelectSeq(template, LAMBDA piece : piece = "%s"))

HasPlaceholder(sql) == \E i \in DOMAIN sql : sql[i] = "%s"

\* C24: a table creation whose loaded template does not hold exactly five
\* placeholders returns an error and sends no statement, and no statement a
\* table creation sends contains an un-substituted placeholder.
C24_TemplateMismatchFails ==
    tableOut.called =>
        /\ PlaceholderCount(tableOut.template) # 5 =>
              (tableOut.err # "" /\ tableOut.stmts = <<>>)
        /\ \A i \in DOMAIN tableOut.stmts : ~HasPlaceholder(tableOut.stmts[i])

\* The ON CLUSTER clause naming the configured cluster, as the CREATE TABLE
\* statements spell it and as Config.clusterString spells it.
ClusterClauses(c) == {"ON CLUSTER " \o c.ClusterName, "ON CLUSTER '" \o c.ClusterName \o "'"}

CarriesOnCluster(sql, clauses) ==
    \E i \in DOMAIN sql : sql[i] \in clauses \/ sql[i] \in {" " \o x : x \in clauses}

\* C25: with clusterName set, every CREATE DATABASE and every CREATE TABLE
\* statement a start sends carries the ON CLUSTER clause naming that cluster;
\* with clusterName empty no statement carries an ON CLUSTER clause.
C25_OnClusterOnAllDDL ==
    \A e \in Kinds : \A i \in IssuedDDL(e) :
        IF cfg.ClusterName # ""
        THEN CarriesOnCluster(issued[e][i], ClusterClauses(cfg))
        ELSE \A c \in LifecycleConfigs : ~CarriesOnCluster(issued[e][i], ClusterClauses(c))

Permutations3 ==
    { <<a, b, c>> : a, b, c \in Kinds } \ { p \in Kinds \X Kinds \X Kinds :
                                              p[1] = p[2] \/ p[1] = p[3] \/ p[2] = p[3] }

StoreAfter(e, c, st) ==
    StartOf(e, c, "open", st, "none", CHOOSE o \in IterationOrders(c.ConnectionParams) : TRUE).store

\* The store after the three starts have run one after the other in order p.
SequentialStore(c, st, p) == StoreAfter(p[3], c, StoreAfter(p[2], c, StoreAfter(p[1], c, st)))

EnsureNeeded(c) == c.CreateSchema /\ c.Database \notin {"", "default"}

\* C26: however the calls of the three concurrent starts interleave, no start
\* fails; once all three have returned, all have succeeded and the store
\* holds the databases and tables a sequential run in any order leaves; and
\* an exporter's CREATE TABLE is sent only after its own createDatabase
\* returned, the database then existing when one had to be created.
C26_ConcurrentStartsConverge ==
    /\ \A e \in Kinds : startRes[e] # "err"
    /\ (\A e \in Kinds : pc[e] # "starting") =>
          /\ \A e \in Kinds : startRes[e] = "ok"
          /\ \A p \in Permutations3 :
                store = SequentialStore(cfg, storeBefore["logs"], p)
    /\ \A e \in Kinds : \A i \in DOMAIN issued[e] :
          /\ IsCreateDb(issued[e][i]) => i = 1
          /\ IsCreateTable(issued[e][i]) =>
                /\ step[e] >= 1
                /\ EnsureNeeded(cfg) => (IsCreateDb(issued[e][1]) /\ cfg.Database \in store.dbs)

C26_Witness ==
    /\ \A e \in Kinds : pc[e] = "running" /\ step[e] = Len(StartCalls(e))
    /\ storeBefore["logs"] = EmptyStore /\ cfg.Database = "otel"
    /\ \A e \in Kinds : IsCreateDb(issued[e][1])
    /\ Cardinality(store.tables) = 6

\* C28: once the context passed to start is cancelled (or its deadline has
\* passed), every start in progress eventually returns, for the logs, traces
\* and metrics exporters alike, whether or not the store ever answers.
C28_StartReturnsAfterCancel ==
    (ctx = "cancelled") ~> (\A e \in Kinds : pc[e] # "starting")

\* C27: every exporter calls sql.Open for its handle at most once, in its
\* constructor; a handle is closed only once its own exporter's shutdown
\* has been called: it stays open through its starts, successful or failed,
\* through createDatabase, through its pushes and through every call on the
\* exporter of the other kind, which has a handle of its own.
C27_HandleOwnership ==
    \A e \in Kinds :
        /\ opens[e] <= 1
        /\ opens[e] = 1 => pc[e] # "new"
        /\ db[e] # "nil" => (opens[e] = 1 /\ e \in present)
        /\ db[e] = "closed" => shutdowns[e] >= 1
        /\ (db[e] # "nil" /\ shutdowns[e] = 0) => db[e] = "open"

C27_Witness ==
    \E e, f \in present :
        /\ e # f
        /\ db[e] = "closed" /\ shutdowns[e] = 1 /\ opens[e] = 1
        /\ db[f] = "open" /\ opens[f] = 1 /\ shutdowns[f] = 0
        /\ startRes[f] = "err" /\ ctrl[f].closed = 1 /\ pushes[f] = 1

\* The tables a complete pass of the exporter of kind e creates, in order.
TablesOfPass(e) ==
    CASE e = "logs" -> <<getLogsTableName(cfg)>>
      [] e = "traces" -> <<>>
      [] e = "metrics" -> MetricTableOrder

\* C29: a start that follows a failed start of the same exporter, and in
\* which the environment fails no call, sends CREATE DATABASE again when a
\* database has to be ensured, sends the CREATE TABLE of every table of its
\* kind from the first one on, whatever the failed pass had already created,
\* probes, and succeeds.
C29_RetryRunsWholePass ==
    \A e \in Kinds :
        (starts[e] >= 2 /\ prevRes[e] = "err" /\ db[e] = "open" /\ startFault[e] = "none") =>
            /\ startRes[e] = "ok" /\ pings[e] = 1
            /\ EnsureNeeded(cfg) => (IsCreateDb(issued[e][1]) /\ ctrl[e].opened = 1)
            /\ TablesIssued(e) = TablesOfPass(e)
            /\ \A t \in RequiredTables(e) \ {"otel_traces"} :
                  <<cfg.Database, t>> \in store.tables

C29_Witness ==
    /\ starts["metrics"] = 2 /\ prevRes["metrics"] = "err" /\ startRes["metrics"] = "ok"
    /\ db["metrics"] = "open" /\ startFault["metrics"] = "none"
    /\ storeBefore["metrics"].tables # {} /\ storeBefore["metrics"].tables # store.tables
    /\ Len(issued["metrics"]) = 6

\* C30: a start called on an exporter whose handle shutdown has closed makes
\* no ExecContext call and no Ping call on that handle, and however many
\* times shutdown is called the handle is closed at most once.
C30_NoUseAfterShutdown ==
    [][\A e \in Kinds :
          /\ closes'[e] <= 1
          /\ (db[e] = "closed" /\ starts'[e] = starts[e] + 1) =>
                (pings'[e] = 0 /\ stepFailed'[e] \notin {<<"exec">>, <<"ping">>})]_vars

====
